---------------------------- MODULE Spec2Model ----------------------------
(***************************************************************************)
(* Model of the arm-characterization utilities:                            *)
(*   - PathGenerator.generate_parametric_path and circle_path              *)
(*     (src/PathGenerator.py), as operators over exact rationals;          *)
(*   - ArmController.stream_parametric_path and read_response              *)
(*     (src/ArmSerialController.py), as a sequential process paced         *)
(*     against a wall clock counted in milliseconds.                       *)
(*   - the callers of a streaming session, stream_path_to_arduino          *)
(*     (src/run_path.py) and demo_stream_square (src/main.py): open the    *)
(*     port, stream, close;                                                *)
(*   - load_csv_path (src/run_path.py) and PathGenerator.save_to_csv, as   *)
(*     operators over files of rows of fields, and the part of             *)
(*     run_path.main that uses them.                                       *)
(*                                                                         *)
(* Python floats are modelled by exact rationals <<num, den>> in lowest    *)
(* terms with den > 0: rounding error of IEEE arithmetic is not modelled.  *)
(***************************************************************************)
EXTENDS Integers, Sequences, FiniteSets, TLC

VARIABLES
    \* ---- path generation (src/PathGenerator.py) ----
    waypoints,      \* PathGenerator.waypoints: sequence of <<x, y>> (integers)
    closed,         \* PathGenerator.closed
    total_time_ms,  \* argument of generate_parametric_path / circle_path
    rate_hz,        \* argument of generate_parametric_path / circle_path
    gen_pc,         \* "ready" | "path" | "circle": which generator has returned
    gen_result,     \* [err |-> "none" | "ZeroDivisionError", samples |-> Seq]
    \* ---- streaming (src/ArmSerialController.py) ----
    samples,        \* argument of stream_parametric_path: Seq of <<t_ms, x, y>>
    wait_ack,       \* argument of stream_parametric_path
    start_delay,    \* argument of stream_parametric_path, in ms
    pc,             \* position of the streaming call
    now,            \* wall clock time.time(), in ms
    t0,             \* local t0 (session start), in ms
    idx,            \* 1-based position of the for loop in samples
    target_time,    \* local target_time of the current iteration, in ms
    read_now,       \* local now of the current iteration (line 94), in ms
    ack_start,      \* read_response's start_time, in ms
    rx,             \* lines waiting in the serial input buffer, each with the
                    \* number of commands written before it was printed (ghost)
    tx,             \* lines written to the serial port, in order
    hist,           \* history of the session (ghost)
    \* ---- the caller of a streaming session (src/run_path.py, src/main.py) ----
    flow,           \* position of stream_path_to_arduino / demo_stream_square
    ser_open,       \* ArmController.ser.is_open
    ret,            \* what stream_parametric_path returned
    printed,        \* status messages printed so far, in order
    \* ---- trajectory files (src/run_path.py, src/PathGenerator.py) ----
    csv_file,       \* the file given to load_csv_path: Seq of rows of fields
    loaded,         \* what load_csv_path returned
    saved,          \* [err, file]: outcome of save_to_csv and the file it wrote
    file_pc         \* position of run_path.main

genVars == <<waypoints, closed, total_time_ms, rate_hz, gen_pc, gen_result>>
streamVars == <<samples, wait_ack, start_delay, pc, now, t0, idx, target_time,
                read_now, ack_start, rx, tx, hist>>
callerVars == <<flow, ser_open, ret, printed>>
fileVars == <<csv_file, loaded, saved, file_pc>>
vars == <<genVars, streamVars, callerVars, fileVars>>

-----------------------------------------------------------------------------
(* Bounds of the model.                                                    *)

MaxWaypoints == 3
MaxCoord == 1
TotalStep == 150
MaxTotalSteps == 3
RateStep == 5
MaxRateSteps == 3
MaxSamples == 2
OversleepMs == 20
LateMs == 150
MaxLate == 1
MaxRx == 2
EmitWindowPolls == 1
MaxRows == 2

(* Program constants.                                                      *)

MsPerSecond == 1000
AckTimeoutMs == 2000
PollMs == 50
PaceMs == 1
CallerStartDelayMs == 500
ConnectMs == 2500
SettleMs == 500

-----------------------------------------------------------------------------
(* Integer and rational helpers standing for Python's float arithmetic.    *)

Abs(a) == IF a < 0 THEN -a ELSE a

Max(a, b) == IF a >= b THEN a ELSE b

Min(a, b) == IF a <= b THEN a ELSE b

RECURSIVE GCD(_, _)
GCD(a, b) == IF b = 0 THEN a ELSE GCD(b, a % b)

\* int(a / b) for b > 0: Python's int() truncates toward zero.
TruncDiv(a, b) == IF a >= 0 THEN a \div b ELSE -((-a) \div b)

\* floor(a / b) for b # 0.
FloorDiv(a, b) == IF b > 0 THEN a \div b ELSE (-a) \div (-b)

\* The rational n/d (d # 0) in lowest terms with a positive denominator.
Rat(n, d) ==
    LET g == GCD(Abs(n), Abs(d))
        s == IF d < 0 THEN -1 ELSE 1
    IN  <<(s * n) \div g, (s * d) \div g>>

RInt(n) == <<n, 1>>

RAdd(a, b) == Rat(a[1] * b[2] + b[1] * a[2], a[2] * b[2])

RSub(a, b) == Rat(a[1] * b[2] - b[1] * a[2], a[2] * b[2])

RMul(a, b) == Rat(a[1] * b[1], a[2] * b[2])

\* a / b for b # 0
RDiv(a, b) == Rat(a[1] * b[2], a[2] * b[1])

RLess(a, b) == a[1] * b[2] < b[1] * a[2]

RLeq(a, b) == a[1] * b[2] <= b[1] * a[2]

\* a // b (float floor division) for b # 0, as an integer
RFloorDiv(a, b) == FloorDiv(a[1] * b[2], a[2] * b[1])

-----------------------------------------------------------------------------
(* PathGenerator.generate_parametric_path (src/PathGenerator.py:35-93).    *)
(* Waypoints are 1-based here; a sample is <<t_ms, x, y>>, each a rational.*)

Ok(smp) == [err |-> "none", samples |-> smp]

ZeroDivisionError == [err |-> "ZeroDivisionError", samples |-> <<>>]

\* Faulty variant of total_samples: one sample more, the end point counted
total_samples_inclusive(total, rate) == Max(1, TruncDiv(total * rate, MsPerSecond)) + 1

\* max(1, int(total_time_ms * rate_hz / 1000.0))
total_samples(total, rate) == Max(1, TruncDiv(total * rate, MsPerSecond))

\* Faulty variant of step_time: the loop counts from 1 instead of 0
step_time_from_one(s, rate) == RMul(RInt(s + 1), RDiv(RInt(MsPerSecond), RInt(rate)))

\* s * (1000.0 / rate_hz), for rate # 0
step_time(s, rate) == RMul(RInt(s), RDiv(RInt(MsPerSecond), RInt(rate)))

\* t_ms of loop iteration s: the step time, clamped to total_time_ms
clamped_time(s, total, rate) ==
    LET t_ms == step_time(s, rate)
    IN  IF RLess(RInt(total), t_ms) THEN RInt(total) ELSE t_ms

\* n if closed else n - 1
seg_count(n, cl) == IF cl THEN n ELSE n - 1

\* total_time_ms / float(seg_count)
seg_time(n, cl, total) == RDiv(RInt(total), RInt(seg_count(n, cl)))

\* int(min(seg_count - 1, t_ms // seg_time)), for seg_time # 0
seg_idx(t_ms, n, cl, total) ==
    Min(seg_count(n, cl) - 1, RFloorDiv(t_ms, seg_time(n, cl, total)))

\* Faulty variant of local_u: the time into the whole path, not into the segment
local_u_global(t_ms, n, cl, total) ==
    LET st == seg_time(n, cl, total)
    IN  IF RLess(RInt(0), st) THEN RDiv(t_ms, st) ELSE RInt(0)

\* (t_ms - seg_idx * seg_time) / seg_time if seg_time > 0 else 0.0
local_u(t_ms, n, cl, total) ==
    LET st == seg_time(n, cl, total)
        si == seg_idx(t_ms, n, cl, total)
    IN  IF RLess(RInt(0), st)
        THEN RDiv(RSub(t_ms, RMul(RInt(si), st)), st)
        ELSE RInt(0)

\* Python list indexing pts[i] with a 0-based i (negative i counts from the end)
PyIndex(pts, i) == IF i >= 0 THEN pts[i + 1] ELSE pts[Len(pts) + i + 1]

\* x0 + u * (x1 - x0)
lerp(a, b, u) == RAdd(RInt(a), RMul(u, RInt(b - a)))

\* One iteration of the sampling loop (lines 62-86), for rate # 0, total # 0
interp_sample(pts, cl, total, rate, s) ==
    LET n == Len(pts)
        t_ms == clamped_time(s, total, rate)
        si == seg_idx(t_ms, n, cl, total)
        u == local_u(t_ms, n, cl, total)
        i0 == si
        i1 == IF cl THEN (si + 1) % n ELSE si + 1
        p0 == PyIndex(pts, i0)
        p1 == PyIndex(pts, i1)
    IN  <<t_ms, lerp(p0[1], p1[1], u), lerp(p0[2], p1[2], u)>>

\* Faulty variant of final_correction: the correction is left out
final_correction_skipped(smp, pts, cl, total) == smp

\* Faulty variant of final_correction: the corrected sample is appended, not overwritten
final_correction_append(smp, pts, cl, total) ==
    LET p == PyIndex(pts, IF cl THEN 0 ELSE Len(pts) - 1)
    IN  Append(smp, <<RInt(total), RInt(p[1]), RInt(p[2])>>)

\* Faulty variant of final_correction: samples[0] is overwritten instead of samples[-1]
final_correction_first(smp, pts, cl, total) ==
    LET p == PyIndex(pts, IF cl THEN 0 ELSE Len(pts) - 1)
    IN  IF Len(smp) = 0 THEN smp
        ELSE [smp EXCEPT ![1] = <<RInt(total), RInt(p[1]), RInt(p[2])>>]

\* Lines 88-91: samples[-1] = (total_time_ms, pts[final_idx][0], pts[final_idx][1])
final_correction(smp, pts, cl, total) ==
    IF Len(smp) = 0 THEN smp
    ELSE LET final_idx == IF cl THEN 0 ELSE Len(pts) - 1
             p == PyIndex(pts, final_idx)
         IN  [smp EXCEPT ![Len(smp)] = <<RInt(total), RInt(p[1]), RInt(p[2])>>]

\* Faulty variant of single_point_path: the final correction is applied here too
single_point_path_corrected(pts, total, rate) ==
    IF rate = 0 THEN ZeroDivisionError
    ELSE LET smp == [i \in 1..Max(1, TruncDiv(total * rate, MsPerSecond)) |->
                        <<RMul(RInt(i - 1), RDiv(RInt(MsPerSecond), RInt(rate))),
                          RInt(pts[1][1]), RInt(pts[1][2])>>]
         IN  Ok([smp EXCEPT ![Len(smp)] =
                    <<RInt(total), RInt(pts[1][1]), RInt(pts[1][2])>>])

\* Lines 49-52: a single waypoint repeated, no final correction
single_point_path(pts, total, rate) ==
    IF rate = 0 THEN ZeroDivisionError
    ELSE Ok([i \in 1..total_samples(total, rate) |->
                <<step_time(i - 1, rate), RInt(pts[1][1]), RInt(pts[1][2])>>])

\* Lines 54-93: two or more waypoints
multi_point_path(pts, cl, total, rate) ==
    IF rate = 0 \/ total = 0 THEN ZeroDivisionError
    ELSE Ok(final_correction(
              [i \in 1..total_samples(total, rate) |->
                  interp_sample(pts, cl, total, rate, i - 1)],
              pts, cl, total))

generate_parametric_path(pts, cl, total, rate) ==
    IF Len(pts) = 0 THEN Ok(<<>>)
    ELSE IF Len(pts) = 1 THEN single_point_path(pts, total, rate)
    ELSE multi_point_path(pts, cl, total, rate)

(* circle_path (src/PathGenerator.py:119-147).  A sample is <<t_ms, p>>:   *)
(* its position is center + radius*(cos(a), sin(a)) at the angle           *)
(* a = start_angle + p*2*pi, so the forced final sample, computed at       *)
(* start_angle itself, has p = 0.                                          *)

\* min(1.0, t_ms / total_time_ms) if total_time_ms > 0 else 1.0
t_norm(t_ms, total) ==
    IF total > 0
    THEN (IF RLeq(RInt(1), RDiv(t_ms, RInt(total))) THEN RInt(1)
          ELSE RDiv(t_ms, RInt(total)))
    ELSE RInt(1)

circle_sample(total, rate, s) ==
    LET t_ms == clamped_time(s, total, rate)
    IN  <<t_ms, t_norm(t_ms, total)>>

circle_final(smp, total) ==
    IF Len(smp) = 0 THEN smp
    ELSE [smp EXCEPT ![Len(smp)] = <<RInt(total), RInt(0)>>]

circle_path(total, rate) ==
    IF rate = 0 THEN ZeroDivisionError
    ELSE Ok(circle_final(
              [i \in 1..total_samples(total, rate) |->
                  circle_sample(total, rate, i - 1)],
              total))

-----------------------------------------------------------------------------
(* Inputs of the generators.                                               *)

Points == (0..MaxCoord) \X (0..MaxCoord)

RECURSIVE SeqsUpTo(_, _)
SeqsUpTo(S, k) ==
    IF k = 0 THEN {<<>>}
    ELSE LET shorter == SeqsUpTo(S, k - 1)
         IN  shorter \cup {Append(q, e) : q \in {r \in shorter : Len(r) = k - 1}, e \in S}

WaypointLists == SeqsUpTo(Points, MaxWaypoints)

\* Durations and rates: negative, zero and positive values
TotalTimes == {TotalStep * k : k \in -1..MaxTotalSteps}

Rates == {RateStep * k : k \in -1..MaxRateSteps}

\* No line: what ended a wait that no line ended
NoLine == <<>>

\* The record of an ack wait: the sample it is for, the lines read in it with
\* the number of commands written before the device printed each, and the time
\* it took (-1 while it lasts)
NoWait == [i |-> 0, lines |-> <<>>, elapsed |-> -1]

\* The history of a session that has not begun
NoHistory ==
    [called_at |-> 0, sent_at |-> 0, sleeps |-> <<>>, attempts |-> <<>>,
     ack_waits |-> <<>>, paces |-> <<>>, failed |-> 0, late |-> 0,
     emitted |-> 0, wait |-> NoWait, ends |-> <<>>]

\* The streaming call before it is made (left alone by the generators)
StreamIdle ==
    /\ samples = <<>>
    /\ wait_ack = FALSE
    /\ start_delay = 0
    /\ pc = "idle"
    /\ now = 0
    /\ t0 = 0
    /\ idx = 0
    /\ target_time = 0
    /\ read_now = 0
    /\ ack_start = 0
    /\ rx = <<>>
    /\ tx = <<>>
    /\ hist = NoHistory

\* The caller of a streaming session before it starts
CallerIdle ==
    /\ flow = "start"
    /\ ser_open = FALSE
    /\ ret = <<>>
    /\ printed = <<>>

\* run_path.main before it loads a file
FileIdle ==
    /\ csv_file = <<>>
    /\ loaded = [is_none |-> TRUE, samples |-> <<>>]
    /\ saved = [err |-> "none", file |-> <<>>]
    /\ file_pc = "idle"

\* PathGenerator.__init__ and the arguments of a generator call
GenInit ==
    /\ waypoints \in WaypointLists
    /\ closed \in BOOLEAN
    /\ total_time_ms \in TotalTimes
    /\ rate_hz \in Rates
    /\ gen_pc = "ready"
    /\ gen_result = Ok(<<>>)
    /\ StreamIdle
    /\ CallerIdle
    /\ FileIdle

\* pg.generate_parametric_path(total_time_ms, rate_hz) returns or raises
GeneratePath ==
    /\ gen_pc = "ready"
    /\ gen_pc' = "path"
    /\ gen_result' = generate_parametric_path(waypoints, closed, total_time_ms, rate_hz)
    /\ UNCHANGED <<waypoints, closed, total_time_ms, rate_hz, streamVars, callerVars, fileVars>>

\* circle_path(cx, cy, radius, total_time_ms, rate_hz) returns or raises
GenerateCircle ==
    /\ gen_pc = "ready"
    /\ gen_pc' = "circle"
    /\ gen_result' = circle_path(total_time_ms, rate_hz)
    /\ UNCHANGED <<waypoints, closed, total_time_ms, rate_hz, streamVars, callerVars, fileVars>>

GenNext == GeneratePath \/ GenerateCircle

GenSpec == GenInit /\ [][GenNext]_vars

-----------------------------------------------------------------------------
(* Properties of the generated trajectory.                                 *)

PathReturned == gen_pc = "path"

CircleReturned == gen_pc = "circle"

ValidTiming == total_time_ms > 0 /\ rate_hz > 0

\* max(1, floor(total_time_ms * rate_hz / 1000)) as the specification states it
ExpectedCount ==
    LET q == (total_time_ms * rate_hz) \div 1000
    IN  IF q >= 1 THEN q ELSE 1

\* waypoints[0] if closed else waypoints[last]
TerminalPoint == IF closed THEN waypoints[1] ELSE waypoints[Len(waypoints)]

TerminalSample ==
    <<RInt(total_time_ms), RInt(TerminalPoint[1]), RInt(TerminalPoint[2])>>

LastSample == gen_result.samples[Len(gen_result.samples)]

\* C1 as stated: for any number of waypoints >= 1 and total_time_ms > 0,
\* rate_hz > 0, the final sample of a non-empty trajectory returned by
\* generate equals (total_time_ms, terminal_point) exactly.
C1_FinalSampleAnyCount ==
    (PathReturned /\ ValidTiming /\ Len(waypoints) >= 1
        /\ Len(gen_result.samples) > 0)
    => LastSample = TerminalSample

\* C1 amended: with two or more waypoints the final sample equals
\* (total_time_ms, terminal_point) exactly; with exactly one waypoint the final
\* sample has the waypoint's coordinates but t_ms = (N-1)*1000/rate_hz, which
\* is below total_time_ms.
C1_FinalSample ==
    (PathReturned /\ ValidTiming /\ Len(waypoints) >= 1)
    => /\ gen_result.err = "none"
       /\ Len(gen_result.samples) > 0
       /\ Len(waypoints) >= 2 => LastSample = TerminalSample
       /\ Len(waypoints) = 1 =>
            /\ LastSample[2] = RInt(waypoints[1][1])
            /\ LastSample[3] = RInt(waypoints[1][2])
            /\ LastSample[1] = Rat((ExpectedCount - 1) * 1000, rate_hz)
            /\ RLess(LastSample[1], RInt(total_time_ms))

\* A closed path of several samples whose last interpolated point is not the
\* start waypoint has been generated.
C1_Witness ==
    /\ PathReturned /\ ValidTiming /\ closed
    /\ Len(waypoints) = 3 /\ waypoints[1] # waypoints[3]
    /\ Len(gen_result.samples) >= 3
    /\ LastSample = TerminalSample

\* C2: with >= 2 waypoints (open or closed) and total_time_ms > 0, rate_hz > 0
\* generate returns exactly max(1, floor(total_time_ms*rate_hz/1000)) samples,
\* and circle_path returns that many samples for the same timing inputs.
C2_SampleCount ==
    /\ (PathReturned /\ ValidTiming /\ Len(waypoints) >= 2)
        => (gen_result.err = "none" /\ Len(gen_result.samples) = ExpectedCount)
    /\ (CircleReturned /\ ValidTiming)
        => (gen_result.err = "none" /\ Len(gen_result.samples) = ExpectedCount)

\* A path whose sample count is a proper floor (total*rate not a multiple of
\* 1000) and above one has been generated.
C2_Witness ==
    /\ PathReturned /\ ValidTiming /\ Len(waypoints) >= 2
    /\ (total_time_ms * rate_hz) % 1000 # 0
    /\ Len(gen_result.samples) = ExpectedCount
    /\ ExpectedCount >= 2

\* C3 as stated: with >= 2 waypoints and total_time_ms > 0, rate_hz > 0
\* (sample count 1 included) the first sample has t_ms = 0.
C3_FirstSampleAtZeroAlways ==
    (PathReturned /\ ValidTiming /\ Len(waypoints) >= 2)
    => gen_result.samples[1][1] = RInt(0)

\* C3 amended: with >= 2 waypoints and total_time_ms > 0, rate_hz > 0 the
\* first sample has t_ms = 0 when the sample count is at least 2; when the
\* sample count is 1 the only sample is the corrected final one, whose t_ms is
\* total_time_ms.
C3_FirstSampleAtZero ==
    (PathReturned /\ ValidTiming /\ Len(waypoints) >= 2)
    => /\ Len(gen_result.samples) >= 1
       /\ Len(gen_result.samples) >= 2 => gen_result.samples[1][1] = RInt(0)
       /\ Len(gen_result.samples) = 1 => gen_result.samples[1][1] = RInt(total_time_ms)

\* A trajectory of at least two samples starting at t_ms = 0 has been generated.
C3_Witness ==
    /\ PathReturned /\ ValidTiming /\ Len(waypoints) >= 2
    /\ Len(gen_result.samples) >= 2
    /\ gen_result.samples[1][1] = RInt(0)

\* C4: in every trajectory returned by generate (any waypoint count,
\* total_time_ms > 0, rate_hz > 0) t_ms is non-decreasing over adjacent
\* samples, the pair of the last interpolated and the corrected final sample
\* included.
C4_TimeNonDecreasing ==
    (PathReturned /\ ValidTiming)
    => /\ gen_result.err = "none"
       /\ \A i \in 1..(Len(gen_result.samples) - 1) :
            RLeq(gen_result.samples[i][1], gen_result.samples[i + 1][1])

\* A corrected trajectory of at least three samples has been generated.
C4_Witness ==
    /\ PathReturned /\ ValidTiming /\ Len(waypoints) >= 2
    /\ Len(gen_result.samples) >= 3
    /\ RLess(gen_result.samples[Len(gen_result.samples) - 1][1], LastSample[1])

\* C5 as stated: generate called with rate_hz <= 0 or total_time_ms < 0 fails
\* with a ConfigError whatever the waypoints, and returns no trajectory.
C5_ConfigErrorRaised ==
    (PathReturned /\ (rate_hz <= 0 \/ total_time_ms < 0))
    => (gen_result.err = "ConfigError" /\ gen_result.samples = <<>>)

\* C6: with exactly one waypoint w and total_time_ms > 0, rate_hz > 0 generate
\* returns max(1, floor(total_time_ms*rate_hz/1000)) samples and sample i is
\* (i*1000/rate_hz, w.x, w.y) for every index i: no final correction.
C6_SinglePoint ==
    (PathReturned /\ ValidTiming /\ Len(waypoints) = 1)
    => /\ gen_result.err = "none"
       /\ Len(gen_result.samples) = ExpectedCount
       /\ \A i \in 1..Len(gen_result.samples) :
            gen_result.samples[i] =
                <<Rat((i - 1) * 1000, rate_hz),
                  RInt(waypoints[1][1]), RInt(waypoints[1][2])>>

\* A single waypoint has been repeated over at least two samples.
C6_Witness ==
    /\ PathReturned /\ ValidTiming /\ Len(waypoints) = 1
    /\ Len(gen_result.samples) >= 2
    /\ RLess(LastSample[1], RInt(total_time_ms))

\* The nominal sample period 1000/rate_hz, in ms
Period == Rat(1000, rate_hz)

\* The number of segments as the specification states it
SegmentCount == IF closed THEN Len(waypoints) ELSE Len(waypoints) - 1

\* t / segment_duration = t * segment_count / total_time_ms
SegmentsInto(t) == RDiv(RMul(t, RInt(SegmentCount)), RInt(total_time_ms))

\* min(segment_count - 1, floor(t / segment_duration))
SegmentIndex(t) ==
    LET q == SegmentsInto(t)
    IN  Min(SegmentCount - 1, FloorDiv(q[1], q[2]))

\* The fraction of segment SegmentIndex(t) covered at time t
SegmentFraction(t) == RSub(SegmentsInto(t), RInt(SegmentIndex(t)))

\* 0-based index of the waypoint a segment ends at
EndIndex(k) == IF closed THEN (k + 1) % Len(waypoints) ELSE k + 1

\* C17: with >= 2 waypoints and total_time_ms > 0, rate_hz > 0 every sample but
\* the corrected final one is waypoint[i0] + u*(waypoint[i1] - waypoint[i0])
\* with segment_index = min(segment_count-1, floor(t/segment_duration)),
\* i0 = segment_index, i1 = segment_index+1 (mod n when closed); for these
\* samples 0 <= segment_index <= segment_count-1, both indices are in range
\* and 0 <= u <= 1.
C17_Interpolation ==
    (PathReturned /\ ValidTiming /\ Len(waypoints) >= 2)
    => /\ gen_result.err = "none"
       /\ \A i \in 1..(Len(gen_result.samples) - 1) :
            LET smp == gen_result.samples[i]
                t == smp[1]
                k == SegmentIndex(t)
                u == SegmentFraction(t)
                i0 == k
                i1 == EndIndex(k)
            IN  /\ k >= 0 /\ k <= SegmentCount - 1
                /\ i0 \in 0..(Len(waypoints) - 1)
                /\ i1 \in 0..(Len(waypoints) - 1)
                /\ RLeq(RInt(0), u) /\ RLeq(u, RInt(1))
                /\ k = seg_idx(t, Len(waypoints), closed, total_time_ms)
                /\ u = local_u(t, Len(waypoints), closed, total_time_ms)
                /\ smp[2] = RAdd(RInt(waypoints[i0 + 1][1]),
                        RMul(u, RInt(waypoints[i1 + 1][1] - waypoints[i0 + 1][1])))
                /\ smp[3] = RAdd(RInt(waypoints[i0 + 1][2]),
                        RMul(u, RInt(waypoints[i1 + 1][2] - waypoints[i0 + 1][2])))

\* A closed path of two waypoints has a sample, not the final one, strictly
\* inside its last segment, the one that leads back to waypoint 0.
C17_Witness ==
    /\ PathReturned /\ ValidTiming /\ closed
    /\ Len(waypoints) = 2 /\ waypoints[1] # waypoints[2]
    /\ \E i \in 1..(Len(gen_result.samples) - 1) :
            LET t == gen_result.samples[i][1]
            IN  /\ SegmentIndex(t) = 1
                /\ EndIndex(SegmentIndex(t)) = 0
                /\ RLess(RInt(0), SegmentFraction(t))
                /\ RLess(SegmentFraction(t), RInt(1))

\* C19: with >= 2 waypoints, total_time_ms > 0, rate_hz > 0 and N >= 2 samples,
\* t_ms of adjacent samples differs by exactly 1000/rate_hz for every pair but
\* the last; the last gap is total_time_ms - (N-2)*1000/rate_hz, at least twice
\* and less than three times 1000/rate_hz, the final correction having
\* overwritten sample N-1; so t_ms is strictly increasing and no interpolated
\* sample is clamped.
C19_SampleSpacing ==
    (PathReturned /\ ValidTiming /\ Len(waypoints) >= 2
        /\ Len(gen_result.samples) >= 2)
    => LET smp == gen_result.samples
           N == Len(smp)
           gap(i) == RSub(smp[i + 1][1], smp[i][1])
       IN  /\ \A i \in 1..(N - 2) : gap(i) = Period
           /\ gap(N - 1) = RSub(RInt(total_time_ms), RMul(RInt(N - 2), Period))
           /\ RLeq(RMul(RInt(2), Period), gap(N - 1))
           /\ RLess(gap(N - 1), RMul(RInt(3), Period))
           /\ \A i \in 1..(N - 1) :
                /\ RLess(smp[i][1], smp[i + 1][1])
                /\ smp[i][1] = RMul(RInt(i - 1), Period)
                /\ RLess(smp[i][1], RInt(total_time_ms))

\* A trajectory of at least three samples whose last gap lies strictly
\* between two and three periods.
C19_Witness ==
    /\ PathReturned /\ ValidTiming /\ Len(waypoints) >= 2
    /\ Len(gen_result.samples) >= 3
    /\ LET smp == gen_result.samples
           N == Len(smp)
       IN  /\ RSub(smp[2][1], smp[1][1]) = Period
           /\ RLess(RMul(RInt(2), Period), RSub(smp[N][1], smp[N - 1][1]))

-----------------------------------------------------------------------------
(* ArmController.stream_parametric_path and read_response                  *)
(* (src/ArmSerialController.py:52-61, 75-113).  Times are in milliseconds: *)
(* target_time = t0 + t_ms/1000 seconds is t0 + t_ms here.  The clock is   *)
(* taken to be monotonic and time.sleep(d) to last at least d.             *)

\* Trajectories handed to the dispatcher: time stamps in any order; the
\* payload (x, y) of the i-th sample is (i, 0), so that every line differs
Stamps == {0, 100}

Trajectories ==
    {[i \in DOMAIN q |-> <<q[i], i, 0>>] : q \in SeqsUpTo(Stamps, MaxSamples)}

\* Lines the device may print, as sequences of fragments
DeviceLines == {<<"Position reached!">>, <<"ERROR", ": unreachable">>, <<"Moving", "...">>}

\* token in response
Contains(response, token) == \E i \in DOMAIN response : response[i] = token

\* Faulty variant of is_terminal: only the success token ends the wait
is_terminal_success_only(response) == Contains(response, "Position reached!")

\* "Position reached!" in response or "ERROR" in response (line 59)
is_terminal(response) ==
    Contains(response, "Position reached!") \/ Contains(response, "ERROR")

\* f"{x},{y}\n" (line 100)
command(x, y) == ToString(x) \o "," \o ToString(y) \o "\n"

\* t0 = time.time() + float(start_delay) (line 89)
session_start(clock, delay) == clock + delay

\* Faulty variant of target_of: the target is taken from the current time, that is
\* relative to the end of the previous iteration
target_of_relative(start, t_ms) == now + t_ms

\* target_time = t0 + (float(t_ms) / 1000.0) (line 93)
target_of(start, t_ms) == start + t_ms

\* Faulty variant of needs_sleep: the pacing sleep is never taken
needs_sleep_never(to_sleep) == FALSE

\* if to_sleep > 0 (line 96)
needs_sleep(to_sleep) == to_sleep > 0

\* Faulty variant of current_sample: the trajectory is walked from its end
current_sample_reversed(smp, i) == smp[Len(smp) + 1 - i]

\* The element the for loop of line 92 is at
current_sample(smp, i) == smp[i]

\* Faulty variant of after_write_error: the handler logs and falls through
after_write_error_continue == IF wait_ack THEN "ack_enter" ELSE "pace"

\* except serial.SerialException: ... break (lines 104-106)
after_write_error == "done"

\* What time.sleep may add to the requested duration
Oversleep == {0, OversleepMs}

StreamInit ==
    /\ samples \in Trajectories
    /\ wait_ack \in BOOLEAN
    /\ start_delay \in {0, CallerStartDelayMs}
    /\ pc = "idle"
    /\ now = 0
    /\ t0 = 0
    /\ idx = 0
    /\ target_time = 0
    /\ read_now = 0
    /\ ack_start = 0
    /\ rx = <<>>
    /\ tx = <<>>
    /\ hist = NoHistory
    /\ waypoints = <<>>
    /\ closed = FALSE
    /\ total_time_ms = 0
    /\ rate_hz = 0
    /\ gen_pc = "ready"
    /\ gen_result = Ok(<<>>)
    /\ CallerIdle
    /\ FileIdle

\* Lines 84-90: return on an empty list, else fix t0
StreamCall ==
    /\ pc = "idle"
    /\ flow = "opened"
    /\ flow' = "streaming"
    /\ IF Len(samples) = 0
       THEN /\ pc' = "done"
            /\ printed' = Append(printed, <<"No samples to stream.">>)
            /\ UNCHANGED <<t0, idx>>
       ELSE /\ t0' = session_start(now, start_delay)
            /\ idx' = 1
            /\ pc' = "loop"
            /\ printed' = Append(printed, <<"Starting parametric stream">>)
    /\ hist' = [hist EXCEPT !.called_at = now]
    /\ UNCHANGED <<samples, wait_ack, start_delay, now, target_time, read_now,
                   ack_start, rx, tx, ser_open, ret, genVars, fileVars>>

\* Lines 92-96: the target of the current sample and the decision to sleep
LoopHead ==
    /\ pc = "loop"
    /\ target_time' = target_of(t0, current_sample(samples, idx)[1])
    /\ read_now' = now
    /\ IF needs_sleep(target_time' - now)
       THEN /\ pc' = "sleep"
            /\ hist' = [hist EXCEPT !.sleeps = Append(@, idx)]
       ELSE /\ pc' = "write"
            /\ hist' = hist
    /\ UNCHANGED <<samples, wait_ack, start_delay, now, t0, idx, ack_start,
                   rx, tx, genVars, callerVars, fileVars>>

\* Line 97: time.sleep(to_sleep)
PacingSleep ==
    /\ pc = "sleep"
    /\ \E over \in Oversleep : now' = now + (target_time - read_now) + over
    /\ pc' = "write"
    /\ UNCHANGED <<samples, wait_ack, start_delay, t0, idx, target_time,
                   read_now, ack_start, rx, tx, hist, genVars, callerVars, fileVars>>

\* Lines 100-102: the command is written
WriteOk ==
    /\ pc = "write"
    /\ tx' = Append(tx, command(current_sample(samples, idx)[2],
                                current_sample(samples, idx)[3]))
    /\ hist' = [hist EXCEPT !.attempts = Append(@, idx), !.sent_at = now]
    /\ pc' = IF wait_ack THEN "ack_enter" ELSE "pace"
    /\ UNCHANGED <<samples, wait_ack, start_delay, now, t0, idx, target_time,
                   read_now, ack_start, rx, genVars, callerVars, fileVars>>

\* Lines 102-106: the write raises serial.SerialException
WriteError ==
    /\ pc = "write"
    /\ hist' = [hist EXCEPT !.attempts = Append(@, idx), !.failed = idx]
    /\ pc' = after_write_error
    /\ printed' = Append(printed, <<"Serial write error">>)
    /\ UNCHANGED <<samples, wait_ack, start_delay, now, t0, idx, target_time,
                   read_now, ack_start, rx, tx, flow, ser_open, ret, genVars,
                   fileVars>>

\* The for loop moves to the next sample or ends
Advance ==
    IF idx < Len(samples)
    THEN idx' = idx + 1 /\ pc' = "loop"
    ELSE idx' = idx /\ pc' = "done"

\* Lines 110, 54: read_response is entered and reads its start time
AckEnter ==
    /\ pc = "ack_enter"
    /\ ack_start' = now
    /\ hist' = [hist EXCEPT !.ack_waits = Append(@, idx),
                            !.wait = [i |-> idx, lines |-> <<>>, elapsed |-> -1]]
    /\ pc' = "ack"
    /\ UNCHANGED <<samples, wait_ack, start_delay, now, t0, idx, target_time,
                   read_now, rx, tx, genVars, callerVars, fileVars>>

\* Faulty variant of AckTimeout: the wait has no timeout
AckTimeout_never ==
    /\ pc = "ack"
    /\ FALSE
    /\ UNCHANGED vars

\* Faulty variant of AckTimeout: a wait that times out ends the session
AckTimeout_aborts ==
    /\ pc = "ack"
    /\ ~((now - ack_start) < AckTimeoutMs)
    /\ pc' = "done"
    /\ idx' = idx
    /\ hist' = [hist EXCEPT !.wait.elapsed = now - ack_start,
                            !.ends = Append(@, <<idx, NoLine>>)]
    /\ UNCHANGED <<samples, wait_ack, start_delay, now, t0, target_time,
                   read_now, ack_start, rx, tx, genVars, callerVars, fileVars>>

\* Line 55: the timeout has elapsed, read_response returns
AckTimeout ==
    /\ pc = "ack"
    /\ ~((now - ack_start) < AckTimeoutMs)
    /\ Advance
    /\ hist' = [hist EXCEPT !.wait.elapsed = now - ack_start,
                            !.ends = Append(@, <<idx, NoLine>>)]
    /\ UNCHANGED <<samples, wait_ack, start_delay, now, t0, target_time,
                   read_now, ack_start, rx, tx, genVars, callerVars, fileVars>>

\* Faulty variant of AckRead: a line with "ERROR" ends the session
AckRead_error_aborts ==
    /\ pc = "ack"
    /\ (now - ack_start) < AckTimeoutMs
    /\ Len(rx) > 0
    /\ rx' = Tail(rx)
    /\ IF is_terminal(Head(rx).line)
       THEN /\ IF Contains(Head(rx).line, "ERROR")
               THEN idx' = idx /\ pc' = "done"
               ELSE Advance
            /\ now' = now
            /\ hist' = [hist EXCEPT !.wait.lines = Append(@, Head(rx)),
                                    !.wait.elapsed = now - ack_start,
                                    !.ends = Append(@, <<idx, Head(rx).line>>)]
       ELSE /\ now' = now + PollMs
            /\ hist' = [hist EXCEPT !.wait.lines = Append(@, Head(rx))]
            /\ UNCHANGED <<idx, pc>>
    /\ UNCHANGED <<samples, wait_ack, start_delay, t0, target_time, read_now,
                   ack_start, tx, genVars, callerVars, fileVars>>

\* Lines 55-61: one iteration of the wait with a line in the input buffer
AckRead ==
    /\ pc = "ack"
    /\ (now - ack_start) < AckTimeoutMs
    /\ Len(rx) > 0
    /\ rx' = Tail(rx)
    /\ IF is_terminal(Head(rx).line)
       THEN /\ Advance
            /\ now' = now
            /\ hist' = [hist EXCEPT !.wait.lines = Append(@, Head(rx)),
                                    !.wait.elapsed = now - ack_start,
                                    !.ends = Append(@, <<idx, Head(rx).line>>)]
       ELSE /\ now' = now + PollMs
            /\ hist' = [hist EXCEPT !.wait.lines = Append(@, Head(rx))]
            /\ UNCHANGED <<idx, pc>>
    /\ UNCHANGED <<samples, wait_ack, start_delay, t0, target_time, read_now,
                   ack_start, tx, genVars, callerVars, fileVars>>

\* Whether the device may still print during the current wait
CanEmit ==
    /\ wait_ack
    /\ hist.emitted < MaxRx
    /\ pc = "ack" => (now - ack_start) < EmitWindowPolls * PollMs

\* The iterations left before the test of line 55 fails, nothing arriving
PollsLeft ==
    (AckTimeoutMs - (now - ack_start) + PollMs - 1) \div PollMs

\* Lines 55-61: iterations of the wait with nothing in the input buffer: one
\* iteration while the device may still print, else all that are left
AckIdle ==
    /\ pc = "ack"
    /\ (now - ack_start) < AckTimeoutMs
    /\ Len(rx) = 0
    /\ now' = now + PollMs * (IF CanEmit THEN 1 ELSE PollsLeft)
    /\ UNCHANGED <<samples, wait_ack, start_delay, pc, t0, idx, target_time,
                   read_now, ack_start, rx, tx, hist, genVars, callerVars, fileVars>>

\* Line 113: time.sleep(0.001)
Pace ==
    /\ pc = "pace"
    /\ \E over \in Oversleep : now' = now + PaceMs + over
    /\ hist' = [hist EXCEPT !.paces = Append(@, idx)]
    /\ Advance
    /\ UNCHANGED <<samples, wait_ack, start_delay, t0, target_time, read_now,
                   ack_start, rx, tx, genVars, callerVars, fileVars>>

\* The process is held up (scheduling, a slow write) before it reads the
\* clock or before it writes
Elapse ==
    /\ pc \in {"loop", "write"}
    /\ hist.late < MaxLate
    /\ now' = now + LateMs
    /\ hist' = [hist EXCEPT !.late = @ + 1]
    /\ UNCHANGED <<samples, wait_ack, start_delay, pc, t0, idx, target_time,
                   read_now, ack_start, rx, tx, genVars, callerVars, fileVars>>

\* The device prints a line, before a command is written or during the wait
\* that follows it; the input buffer is read in ack mode only
DeviceEmit ==
    /\ pc \in {"write", "ack"}
    /\ CanEmit
    /\ \E line \in DeviceLines :
            rx' = Append(rx, [line |-> line, after |-> Len(tx)])
    /\ hist' = [hist EXCEPT !.emitted = @ + 1]
    /\ UNCHANGED <<samples, wait_ack, start_delay, pc, now, t0, idx,
                   target_time, read_now, ack_start, tx, genVars, callerVars, fileVars>>

\* ArmController(port, baudrate) and the settle delay of the caller
\* (ArmSerialController.py:21-29, run_path.py:112-118, main.py:67-74)
OpenPort ==
    /\ flow = "start"
    /\ flow' = "opened"
    /\ ser_open' = TRUE
    /\ now' = now + ConnectMs + SettleMs
    /\ printed' = Append(printed, <<"Connected to Arduino">>)
    /\ UNCHANGED <<samples, wait_ack, start_delay, pc, t0, idx, target_time,
                   read_now, ack_start, rx, tx, hist, ret, genVars, fileVars>>

\* serial.Serial raises, the constructor exits and the caller returns
\* (ArmSerialController.py:31-34, run_path.py:114-116, main.py:69-71)
OpenFail ==
    /\ flow = "start"
    /\ flow' = "returned"
    /\ printed' = Append(printed, <<"Failed to open serial port.">>)
    /\ UNCHANGED <<streamVars, ser_open, ret, genVars, fileVars>>

\* What stream_parametric_path returns: None on every path (lines 75, 86, 113)
stream_return == <<"None">>

\* stream_parametric_path has returned: controller.close() and the closing
\* message of the caller (run_path.py:119-124, main.py:75-76)
CallerClose ==
    /\ flow = "streaming"
    /\ pc = "done"
    /\ ret' = stream_return
    /\ ser_open' = FALSE
    /\ printed' = printed \o (IF ser_open THEN <<<<"Serial connection closed">>>> ELSE <<>>)
                          \o <<<<"Stream complete">>>>
    /\ flow' = "returned"
    /\ UNCHANGED <<streamVars, genVars, fileVars>>

\* KeyboardInterrupt raised in time.sleep or in read_response: neither
\* stream_parametric_path nor its caller catches it, so line 120 of run_path.py
\* (line 76 of main.py) is not reached
Interrupt ==
    /\ flow = "streaming"
    /\ pc \in {"sleep", "ack", "pace"}
    /\ pc' = "interrupted"
    /\ flow' = "raised"
    /\ UNCHANGED <<samples, wait_ack, start_delay, now, t0, idx, target_time,
                   read_now, ack_start, rx, tx, hist, ser_open, ret, printed,
                   genVars, fileVars>>

StreamNext ==
    \/ OpenPort
    \/ OpenFail
    \/ CallerClose
    \/ Interrupt
    \/ StreamCall
    \/ LoopHead
    \/ PacingSleep
    \/ WriteOk
    \/ WriteError
    \/ AckEnter
    \/ AckTimeout
    \/ AckRead
    \/ AckIdle
    \/ Pace
    \/ Elapse
    \/ DeviceEmit

StreamSpec == StreamInit /\ [][StreamNext]_vars

\* A statement of the streaming call or of its caller is executed
ProgramStep ==
    \/ StreamCall
    \/ LoopHead
    \/ PacingSleep
    \/ WriteOk
    \/ WriteError
    \/ AckEnter
    \/ AckTimeout
    \/ AckRead
    \/ AckIdle
    \/ Pace
    \/ CallerClose

\* The program is one sequential process that keeps running: the statement it
\* is at is executed, time.sleep returns, ser.write returns or raises, and each
\* iteration of read_response's loop completes.  No such assumption is made of
\* the device, of delays or of the user's interrupt.
StreamFairness == WF_vars(ProgramStep)

StreamLiveSpec == StreamInit /\ [][StreamNext]_vars /\ StreamFairness

-----------------------------------------------------------------------------
(* Trajectory files: load_csv_path (src/run_path.py:26-49), save_to_csv    *)
(* (src/PathGenerator.py:95-101) and the part of run_path.main that uses   *)
(* them (lines 169-177, 239-276).  A file is the sequence of its rows, a   *)
(* row the sequence of its fields.  A field is either a decimal literal    *)
(* with d digits after the point, standing for m / 10^d, or other text     *)
(* (d = -1).                                                               *)

Num(m, d) == [m |-> m, d |-> d, text |-> ""]

Text(s) == [m |-> 0, d |-> -1, text |-> s]

\* writer.writerow(['t_ms', 'x', 'y'])
HeaderRow == <<Text("t_ms"), Text("x"), Text("y")>>

\* What load_csv_path returns when it has no samples, and a list of samples
None == [is_none |-> TRUE, samples |-> <<>>]

List(smp) == [is_none |-> FALSE, samples |-> smp]

\* float(field) raises ValueError unless the field is a number
is_float(field) == field.d >= 0

\* float(field), for a field that is a number
to_float(field) == Rat(field.m, 10 ^ field.d)

\* The integer nearest to the rational r, ties to the even one
RoundHalfEven(r) ==
    LET lo == FloorDiv(r[1], r[2])
        twice == 2 * (r[1] - lo * r[2])
    IN  IF twice < r[2] THEN lo
        ELSE IF twice > r[2] THEN lo + 1
        ELSE IF lo % 2 = 0 THEN lo ELSE lo + 1

\* f"{v:.<d>f}"
format_fixed(v, d) == Num(RoundHalfEven(RMul(v, RInt(10 ^ d))), d)

\* Faulty variant of has_three_fields: rows of more than three fields are dropped
has_exactly_three_fields(row) == Len(row) = 3

\* if len(row) >= 3 (line 36)
has_three_fields(row) == Len(row) >= 3

\* Lines 36-43: the sample of a row, or nothing for a row that is skipped
load_row(row) ==
    IF has_three_fields(row)
    THEN IF is_float(row[1]) /\ is_float(row[2]) /\ is_float(row[3])
         THEN <<<<to_float(row[1]), to_float(row[2]), to_float(row[3])>>>>
         ELSE <<>>
    ELSE <<>>

RECURSIVE load_rows(_)
\* Lines 35-43: for row in reader
load_rows(rows) ==
    IF Len(rows) = 0 THEN <<>>
    ELSE load_row(Head(rows)) \o load_rows(Tail(rows))

\* load_csv_path(filepath): next(reader) raises StopIteration on a file with
\* no line at all, which the handler of lines 47-49 turns into None
load_csv_path(file) ==
    IF Len(file) = 0 THEN None
    ELSE LET smp == load_rows(Tail(file))
         IN  IF Len(smp) > 0 THEN List(smp) ELSE None

\* Faulty variant of save_row: t_ms written with six decimals
save_row_six(smp) ==
    <<format_fixed(smp[1], 6), format_fixed(smp[2], 6), format_fixed(smp[3], 6)>>

\* writer.writerow([f"{t:.3f}", f"{x:.6f}", f"{y:.6f}"])
save_row(smp) ==
    <<format_fixed(smp[1], 3), format_fixed(smp[2], 6), format_fixed(smp[3], 6)>>

\* save_to_csv(filename, samples): the header is written before the loop, so
\* iterating None raises TypeError with the header already in the file
save_to_csv(smp) ==
    IF smp.is_none
    THEN [err |-> "TypeError", file |-> <<HeaderRow>>]
    ELSE [err |-> "none",
          file |-> <<HeaderRow>> \o [k \in DOMAIN smp.samples |-> save_row(smp.samples[k])]]

\* No file has been written
NotSaved == [err |-> "none", file |-> <<>>]

\* Data rows a file may hold: in the format of save_to_csv, with a fourth
\* field, with numbers written otherwise, too short, blank, or with a field
\* that is not a number
DataRows ==
    { <<Num(0, 3), Num(250000, 6), Num(-125000, 6)>>,
      <<Num(1500, 3), Num(0, 6), Num(1000000, 6)>>,
      <<Num(100, 3), Num(137000, 6), Num(100000, 6), Text("note")>>,
      <<Num(12346, 4), Num(2, 0), Num(3, 7)>>,
      <<Num(0, 3), Num(250000, 6)>>,
      <<>>,
      <<Text("abc"), Num(0, 6), Num(0, 6)>>,
      <<Num(0, 3), Text(""), Num(0, 6)>>,
      <<Num(0, 3), Num(0, 6), Text("1,5")>> }

\* Files: without any line, or a header followed by up to MaxRows data rows
Files == {<<>>} \cup {<<HeaderRow>> \o rows : rows \in SeqsUpTo(DataRows, MaxRows)}

FileInit ==
    /\ csv_file \in Files
    /\ loaded = None
    /\ saved = NotSaved
    /\ file_pc = "idle"
    /\ waypoints = <<>>
    /\ closed = FALSE
    /\ total_time_ms = 0
    /\ rate_hz = 0
    /\ gen_pc = "ready"
    /\ gen_result = Ok(<<>>)
    /\ StreamIdle
    /\ CallerIdle

\* run_path.main, line 170: samples = load_csv_path(filepath)
LoadFile ==
    /\ file_pc = "idle"
    /\ loaded' = load_csv_path(csv_file)
    /\ file_pc' = "loaded"
    /\ UNCHANGED <<csv_file, saved, genVars, streamVars, callerVars>>

\* run_path.main, lines 172-176: if not samples: ... return
MainCheck ==
    /\ file_pc = "loaded"
    /\ file_pc' = IF loaded.is_none \/ Len(loaded.samples) = 0 THEN "failed" ELSE "menu"
    /\ UNCHANGED <<csv_file, loaded, saved, genVars, streamVars, callerVars>>

\* run_path.main, options 2 and 3: stream_path_to_arduino(samples, ...)
MenuStream ==
    /\ file_pc = "menu"
    /\ file_pc' = "streaming"
    /\ UNCHANGED <<csv_file, loaded, saved, genVars, streamVars, callerVars>>

\* stream_path_to_arduino returns to the menu
MenuResume ==
    /\ file_pc = "streaming"
    /\ file_pc' = "menu"
    /\ UNCHANGED <<csv_file, loaded, saved, genVars, streamVars, callerVars>>

\* run_path.main, option 4: pg.save_to_csv(new_path, samples)
MenuSave ==
    /\ file_pc = "menu"
    /\ saved' = save_to_csv(loaded)
    /\ UNCHANGED <<csv_file, loaded, file_pc, genVars, streamVars, callerVars>>

\* run_path.main, option 0
MenuExit ==
    /\ file_pc = "menu"
    /\ file_pc' = "exit"
    /\ UNCHANGED <<csv_file, loaded, saved, genVars, streamVars, callerVars>>

\* The two functions composed: save_to_csv(out, load_csv_path(f))
RoundTrip ==
    /\ file_pc = "idle"
    /\ loaded' = load_csv_path(csv_file)
    /\ saved' = save_to_csv(loaded')
    /\ file_pc' = "roundtrip"
    /\ UNCHANGED <<csv_file, genVars, streamVars, callerVars>>

FileNext ==
    \/ LoadFile
    \/ MainCheck
    \/ MenuStream
    \/ MenuResume
    \/ MenuSave
    \/ MenuExit
    \/ RoundTrip

FileSpec == FileInit /\ [][FileNext]_vars

\* The three components, each from its own initial states
Init == GenInit \/ StreamInit \/ FileInit

Next == GenNext \/ StreamNext \/ FileNext

Spec == Init /\ [][Next]_vars

-----------------------------------------------------------------------------
(* Properties of a streaming session.                                      *)

InSeq(q, e) == \E i \in DOMAIN q : q[i] = e

\* now() + start_delay_s at the call, in ms
SessionStart == hist.called_at + start_delay

\* The target of sample i as the specification states it
TargetOf(i) == SessionStart + samples[i][1]

\* The target of the current sample has been computed (lines 93-113)
InIteration == pc \in {"sleep", "write", "ack_enter", "ack", "pace"}

\* The current sample has just been written (lines 108-113)
JustWritten == pc \in {"ack_enter", "ack", "pace"}

\* The line "<x>,<y>\n" of sample i
ExpectedLine(i) ==
    ToString(samples[i][2]) \o "," \o ToString(samples[i][3]) \o "\n"

\* C7: the target send time of every sample i is session_start + t_ms[i]/1000
\* with session_start fixed once before the first sample, whenever the
\* earlier samples were actually sent.
C7_TargetFromSessionStart ==
    /\ pc \notin {"idle", "done"} => t0 = SessionStart
    /\ InIteration => target_time = TargetOf(idx)

\* The first sample went out after the second sample's target had passed,
\* and the second sample's target is still session_start + t_ms.
C7_Witness ==
    /\ idx = 2 /\ pc = "write"
    /\ samples[2][1] > samples[1][1]
    /\ hist.sent_at > TargetOf(2)
    /\ target_time = t0 + samples[2][1]

\* C8: no sample is written to the transport before its target time
\* session_start + t_ms/1000 (session_start = call time + start_delay), and a
\* sample whose target has already passed when the clock is read is written
\* without a pacing sleep.
C8_NeverEarly ==
    /\ JustWritten => hist.sent_at >= TargetOf(idx)
    /\ (InIteration /\ read_now >= TargetOf(idx)) => ~InSeq(hist.sleeps, idx)
    /\ (InIteration /\ read_now < TargetOf(idx)) => InSeq(hist.sleeps, idx)

\* The first sample was paced by a sleep; the second, already late, has been
\* written without one.
C8_Witness ==
    /\ idx = 2 /\ JustWritten
    /\ InSeq(hist.sleeps, 1) /\ ~InSeq(hist.sleeps, 2)
    /\ hist.sent_at > TargetOf(2)

\* C9: the lines written so far are a prefix of the trajectory's
\* "<x>,<y>\n" lines in trajectory order; each sample is attempted at most
\* once, in order, none skipped or sent ahead of the loop.
C9_InOrderPrefix ==
    /\ Len(tx) <= Len(samples)
    /\ \A i \in 1..Len(tx) : tx[i] = ExpectedLine(i)
    /\ \A j \in 1..Len(hist.attempts) : hist.attempts[j] = j
    /\ Len(tx) = Len(hist.attempts) - (IF hist.failed # 0 THEN 1 ELSE 0)
    /\ pc \in {"loop", "sleep", "write"} => Len(hist.attempts) = idx - 1
    /\ JustWritten => Len(tx) = idx
    /\ (pc = "done" /\ hist.failed = 0) => Len(tx) = Len(samples)

\* A whole trajectory of two samples has been written.
C9_Witness ==
    /\ pc = "done" /\ Len(samples) >= 2
    /\ Len(tx) = Len(samples)
    /\ tx[1] # tx[2]

\* C10: when the write of sample k fails the session is over: the write is
\* not retried, no later sample is written, and neither an ack wait nor a
\* pacing delay is performed for sample k.
C10_WriteFailureAborts ==
    hist.failed # 0 =>
        /\ pc = "done"
        /\ idx = hist.failed
        /\ Len(tx) = hist.failed - 1
        /\ Len(hist.attempts) = hist.failed
        /\ ~InSeq(hist.ack_waits, hist.failed)
        /\ ~InSeq(hist.paces, hist.failed)

\* The write of the first of two samples failed and the session has ended.
C10_Witness ==
    /\ hist.failed = 1 /\ Len(samples) >= 2
    /\ pc = "done" /\ tx = <<>>

-----------------------------------------------------------------------------
(* Properties of the caller's flow and of the ack wait.                    *)

\* Control has left stream_path_to_arduino / demo_stream_square
LeftFlow == flow \in {"returned", "raised"}

\* The session ended by a failed write or by an interrupt
EndedAbnormally == hist.failed # 0 \/ pc = "interrupted"

\* C11 as stated: whenever a streaming session ends abnormally, by a write
\* failure or by an interrupt arriving during a pacing sleep or an ack wait, the
\* serial port is closed by the time control has left the streaming flow.
C11_AbnormalEndClosesChannel ==
    (LeftFlow /\ EndedAbnormally) => ~ser_open

\* The samples whose ack wait ended with no terminal line read
TimedOut == {hist.ends[j][1] : j \in {k \in DOMAIN hist.ends : hist.ends[k][2] = NoLine}}

\* C12: in ack mode, when no terminal response for sample i arrives within the
\* timeout the dispatcher does not abort: it goes on to sample i+1, and unless a
\* write fails (or the session is interrupted) every remaining sample is sent.
C12_TimeoutContinues ==
    \A i \in TimedOut :
        /\ wait_ack
        /\ i < Len(samples) => idx > i
        /\ (i < Len(samples) /\ pc = "done") => Len(hist.attempts) > i
        /\ (pc = "done" /\ hist.failed = 0) => Len(tx) = Len(samples)

\* The wait for the first of two samples timed out, and both were sent.
C12_Witness ==
    /\ Len(samples) = 2 /\ pc = "done" /\ hist.failed = 0
    /\ 1 \in TimedOut
    /\ Len(tx) = 2

\* The line carries one of the two tokens the specification names
Recognized(line) ==
    \E k \in DOMAIN line : line[k] \in {"Position reached!", "ERROR"}

\* The ack wait last entered has ended
WaitEnded == hist.wait.i # 0 /\ hist.wait.elapsed >= 0

\* The lines read in the ack wait last entered
WaitLines == [k \in DOMAIN hist.wait.lines |-> hist.wait.lines[k].line]

\* C13: the ack wait of a sample ends before its timeout if and only if a line
\* read in it contains "Position reached!" or "ERROR"; any number of other
\* lines leaves the wait going, and it then lasts until the timeout has elapsed.
C13_EarlyEndIffToken ==
    /\ WaitEnded =>
        /\ (hist.wait.elapsed < AckTimeoutMs)
                <=> (\E k \in DOMAIN WaitLines : Recognized(WaitLines[k]))
        /\ \A k \in DOMAIN WaitLines :
                Recognized(WaitLines[k]) => k = Len(WaitLines)
    /\ (pc = "ack" /\ ~WaitEnded) =>
        \A k \in DOMAIN WaitLines : ~Recognized(WaitLines[k])

\* A wait in which two other lines were read has lasted until the timeout.
C13_Witness ==
    /\ WaitEnded
    /\ hist.wait.elapsed >= AckTimeoutMs
    /\ Len(WaitLines) = 2
    /\ ~Recognized(WaitLines[1]) /\ ~Recognized(WaitLines[2])

\* The message names the number k
Mentions(msg, k) == Contains(msg, ToString(k))

\* stream_parametric_path has returned to its caller
Returned == ret # <<>>

\* What the function returns after a session in which every sample was sent
ResultOfSuccess == stream_return

\* C14 as stated: the result of stream_parametric_path tells the outcomes
\* apart, success when all samples were processed or the failure that ended
\* the session early, and on failure it reports how many samples had been
\* dispatched before the failure.
C14_ResultTellsOutcome ==
    (Returned /\ hist.failed # 0) =>
        /\ ret # ResultOfSuccess
        /\ Mentions(ret, Len(tx)) \/ \E j \in DOMAIN printed : Mentions(printed[j], Len(tx))

\* C18 as stated: in ack mode sample i+1 is not sent until a terminal response
\* that the device printed after sample i was sent has been read, or the
\* timeout of sample i has elapsed; a response left over from an earlier sample
\* is never taken as the acknowledgment of a later one.
C18_AckIsFresh ==
    (WaitEnded /\ hist.wait.elapsed < AckTimeoutMs) =>
        hist.wait.lines[Len(hist.wait.lines)].after >= hist.wait.i

\* The samples whose ack wait ended on a line with "ERROR"
Errored ==
    {hist.ends[j][1] : j \in {k \in DOMAIN hist.ends : Contains(hist.ends[k][2], "ERROR")}}

\* C20: in ack mode a response with "ERROR" for sample i only ends the wait for
\* that sample: the session is not aborted and every later sample is still sent,
\* as after the success token.
C20_ErrorOnlyEndsWait ==
    \A i \in Errored :
        /\ hist.failed # i
        /\ i < Len(samples) => idx > i
        /\ (i < Len(samples) /\ pc = "done") => Len(hist.attempts) > i
        /\ (i = Len(samples)) => pc \in {"done"}
        /\ (pc = "done" /\ hist.failed = 0) => Len(tx) = Len(samples)

\* The device answered the first of two samples with an error line, and both
\* samples were sent.
C20_Witness ==
    /\ Len(samples) = 2 /\ pc = "done" /\ hist.failed = 0
    /\ 1 \in Errored
    /\ Len(tx) = 2

-----------------------------------------------------------------------------
(* Properties of loading and saving trajectory files.                      *)

\* The data rows of the file, the first line being taken as the header
DataOf(file) == IF Len(file) = 0 THEN <<>> ELSE Tail(file)

\* A data row is well formed: three fields or more, the first three numbers
WellFormed(row) == Len(row) >= 3 /\ \A k \in 1..3 : row[k].d >= 0

\* The number a numeric field stands for
ValueOf(field) == Rat(field.m, 10 ^ field.d)

\* The well-formed data rows of the file, in file order, as samples
UsableSamples(file) ==
    LET kept == SelectSeq(DataOf(file), WellFormed)
    IN  [k \in DOMAIN kept |->
            <<ValueOf(kept[k][1]), ValueOf(kept[k][2]), ValueOf(kept[k][3])>>]

\* load_csv_path has returned
FileLoaded == file_pc # "idle"

\* C15: load_csv_path skips each malformed data row (fewer than three fields,
\* or a field among the first three that is not a number) by itself and keeps
\* every well-formed row in file order; when no data row is usable it yields
\* the 'no usable path' result, which the caller treats as a failure and never
\* streams.
C15_LoadSkipsMalformedRows ==
    FileLoaded =>
        /\ Len(UsableSamples(csv_file)) > 0 =>
                (~loaded.is_none /\ loaded.samples = UsableSamples(csv_file))
        /\ Len(UsableSamples(csv_file)) = 0 =>
                /\ loaded = None
                /\ file_pc \in {"loaded", "failed", "roundtrip"}
        /\ file_pc \in {"menu", "streaming", "exit"} => Len(loaded.samples) > 0

\* A file whose first data row has four fields and whose second is malformed
\* has been loaded, and its one usable row is being streamed.
C15_Witness ==
    /\ file_pc = "streaming"
    /\ Len(csv_file) = 3
    /\ Len(csv_file[2]) = 4 /\ WellFormed(csv_file[2])
    /\ ~WellFormed(csv_file[3])
    /\ Len(loaded.samples) = 1

\* The row is in the format save_to_csv writes: t_ms with three decimals, x and
\* y with six
InFormat(row) ==
    /\ Len(row) = 3
    /\ row[1].d = 3 /\ row[2].d = 6 /\ row[3].d = 6

\* The file is in the stated format: the header, then any number of such rows
FileInFormat(file) ==
    /\ Len(file) >= 1
    /\ file[1] = HeaderRow
    /\ \A k \in 2..Len(file) : InFormat(file[k])

\* save_to_csv(load_csv_path(f)) has been run
RoundTripDone == file_pc = "roundtrip"

\* C16 as stated: for every trajectory file f in the stated format, with any
\* number of data rows, zero included, save(load(f)) reproduces f exactly.
C16_RoundTripAnyRowCount ==
    (RoundTripDone /\ FileInFormat(csv_file))
    => (saved.err = "none" /\ saved.file = csv_file)

\* C16 amended: for every trajectory file f in the stated format with at least
\* one data row, save(load(f)) reproduces f exactly; for the file with the
\* header alone load yields no trajectory and save of that result fails.
C16_RoundTrip ==
    (RoundTripDone /\ FileInFormat(csv_file))
    => /\ Len(csv_file) >= 2 => (saved.err = "none" /\ saved.file = csv_file)
       /\ Len(csv_file) = 1 => (loaded = None /\ saved.err # "none")

\* A file of two different rows in the stated format has been loaded and
\* saved again.
C16_Witness ==
    /\ RoundTripDone /\ FileInFormat(csv_file)
    /\ Len(csv_file) = 3 /\ csv_file[2] # csv_file[3]
    /\ Len(loaded.samples) = 2
    /\ saved.file = csv_file

-----------------------------------------------------------------------------
(* Termination of a streaming session.                                     *)

\* stream_parametric_path has been called
SessionBegun == flow = "streaming"

\* The session is over with every sample sent or with a failed write
CompletedOrAborted ==
    pc = "done" /\ (hist.failed # 0 \/ Len(tx) = Len(samples))

\* The session is over because the user interrupted it
Cancelled == pc = "interrupted"

\* A step in which the running session lets time pass of its own accord (a call
\* of time.sleep or an iteration of the ack wait), as opposed to being held up
SessionWaits == SessionBegun /\ now' > now /\ hist'.late = hist.late

\* C21 as stated: for every finite trajectory, in ack and in non-ack mode and
\* whatever the device does, a streaming session eventually ends, all samples
\* processed or aborted by a failed write, given that time advances and that
\* each write returns or fails; it waits nowhere but in the pacing sleep and in
\* the bounded ack wait.
C21_EndsWithTwoWaits ==
    /\ SessionBegun ~> CompletedOrAborted
    /\ [][SessionWaits => pc \in {"sleep", "ack"}]_vars

\* C21 amended: for every finite trajectory, in ack and in non-ack mode and
\* whatever the device does, a streaming session eventually ends, all samples
\* processed, aborted by a failed write, or cancelled by an external interrupt,
\* given that time advances and that each write returns or fails; it waits in
\* the pacing sleep, in the bounded ack wait and, in non-ack mode, in a fixed
\* sleep of 1 ms after each write, and nowhere else.
C21_Ends ==
    /\ SessionBegun ~> (CompletedOrAborted \/ Cancelled)
    /\ [][SessionWaits => pc \in {"sleep", "ack", "pace"}]_vars
    /\ [][(SessionWaits /\ pc = "pace") => (~wait_ack /\ Len(tx) = idx)]_vars

\* A session with acks has sent its two samples and ended although the device
\* printed nothing but unrecognized lines, each wait lasting to its timeout.
C21_Witness ==
    /\ pc = "done" /\ Len(samples) = 2 /\ Len(tx) = 2
    /\ wait_ack /\ hist.emitted = MaxRx
    /\ Len(hist.ends) = 2
    /\ \A j \in DOMAIN hist.ends : hist.ends[j][2] = NoLine

=============================================================================
